---- MODULE Spec2Model ----
(***************************************************************************)
(* Terrain-attribute derivation from a raster DEM (notebook                *)
(* "Derive terrain attributes from a Digital Elevation Model"):            *)
(* fill_depressions, D8 flow accumulation, calcDTW, create_kernel and      *)
(* terrain_indices.                                                        *)
(*                                                                         *)
(* A raster is a function from cells <<row, col>> (1-based) to integers.   *)
(* Spec runs the hydrology cells of the notebook on a bounded family of    *)
(* DEMs; KernelSpec applies create_kernel / terrain_indices to a bounded   *)
(* family of windows and methods.                                          *)
(***************************************************************************)
EXTENDS Integers, Sequences, FiniteSets, TLC

VARIABLES
    pc,            \* position in the hydrology cells of the notebook
    dem,           \* the notebook's `dem` (elevation raster handed to fill_depressions)
    fd_dem,        \* fill_depressions: the local `dem` (rebound at the end of an iteration)
    fd_filled,     \* fill_depressions: the local `filled_dem`
    fd_marker,     \* fill_depressions: `marker`
    fd_num,        \* fill_depressions: `num_features` of the last labelling
    fd_iter,       \* fill_depressions: iterations of the while loop started so far
    filled_dem,    \* the notebook's `filled_dem` (result of fill_depressions)
    accum_d8,      \* the notebook's `accum_d8`
    twi,           \* the notebook's `twi`
    fia,           \* the notebook's `fia`, in hundredths of a hectare
    slope,         \* the notebook's `slope`: (8 * tan)^2 of the slope angle after the
                   \* TWI cell, the percent slope raster after the DTW cell
    flow_lines,    \* calcDTW: the channel mask
    cost_distance, \* calcDTW: squared Euclidean distance to the nearest channel cell
    DTW,           \* calcDTW's result, as (100 * DTW)^2
    dtw_error,     \* the exception calcDTW raised, or "none"
    k_pc,          \* position in create_kernel / terrain_indices
    k_call,        \* which function the caller invoked: "create_kernel" or "terrain_indices"
    w,             \* the window <<kx, ky>>
    method,        \* the contiguity method
    unit,          \* terrain_indices: the angle unit
    kernel,        \* the kernel create_kernel returned, or NoRaster
    k_error,       \* the exception raised, or "none"
    ti_result,     \* the dictionary of rasters terrain_indices returned, or NoResult
    d_pc,          \* position in the multi-scale driver loop
    window_sizes,  \* the driver's list of windows
    d_i,           \* the number of windows the loop has taken from the list
    data,          \* the driver's `data`: the raster kept for <<metric, window>>
    written,       \* the rasters written so far, by output name <<metric, metres>>
    s_pc,          \* position in the stratified sampling cell
    strata_areas,  \* sampling: the total polygon area of each class, in group order
    total_points,  \* sampling: `total_points`
    s_i,           \* sampling: the number of classes the for loop has taken
    num_points,    \* sampling: `num_points` of the current class
    points_sampled,    \* sampling: `points_sampled` of the current class
    wetland_points,    \* sampling: the number of points of each class in `wetland_points`
    class_points_dict  \* sampling: `class_points_dict`, by class

vars == <<pc, dem, fd_dem, fd_filled, fd_marker, fd_num, fd_iter, filled_dem,
          accum_d8, twi, fia, slope, flow_lines, cost_distance, DTW, dtw_error,
          k_pc, k_call, w, method, unit, kernel, k_error, ti_result,
          d_pc, window_sizes, d_i, data, written,
          s_pc, strata_areas, total_points, s_i, num_points, points_sampled,
          wetland_points, class_points_dict>>

hydro_vars == <<pc, dem, fd_dem, fd_filled, fd_marker, fd_num, fd_iter, filled_dem,
                accum_d8, twi, fia, slope, flow_lines, cost_distance, DTW, dtw_error>>

driver_vars == <<d_pc, window_sizes, d_i, data, written>>

sampling_vars == <<s_pc, strata_areas, total_points, s_i, num_points, points_sampled,
                   wetland_points, class_points_dict>>

kernel_vars == <<k_pc, k_call, w, method, unit, kernel, k_error, ti_result, driver_vars>>

Null == "null"

\* An integer variable that holds no value yet.
Unset == 0 - 1

\* A raster variable that holds no raster yet.
NoRaster == << >>

\* terrain_indices has returned no dictionary yet.
NoResult == << >>

(***************************************************************************)
(* Bounds of the model.                                                    *)
(***************************************************************************)
H == 3            \* rows of the DEM
W == 3            \* columns of the DEM
MaxElev == 2      \* elevations are 0..MaxElev
MaxLowered == 2   \* cells of the plateau that an input DEM lowers
MaxIter == 3      \* iterations of the filling loop that are followed
MaxK == 7         \* window dimensions are 1..MaxK
MaxSide == 5      \* rows and columns of a plateau DEM are 2..MaxSide
GridRows == 7     \* rows of the DEM handed to terrain_indices
GridCols == 9     \* columns of the DEM handed to terrain_indices
MaxWindows == 3   \* length of the driver's list of windows
MaxClasses == 2   \* wetland classes of the sampling loop are 1..MaxClasses

\* The least number of points sampled for a class.
MinPoints == 300

(***************************************************************************)
(* Raster primitives.                                                      *)
(***************************************************************************)
Cells == (1..H) \X (1..W)

Abs(x) == IF x < 0 THEN -x ELSE x

SetMin(S) == CHOOSE x \in S : \A y \in S : x <= y

RECURSIVE SetSum(_, _)
SetSum(g, S) ==
    IF S = {} THEN 0
    ELSE LET x == CHOOSE y \in S : TRUE IN g[x] + SetSum(g, S \ {x})

\* The 4 edge-adjacent cells of c on the raster.
Neighbors4(f, c) ==
    {d \in DOMAIN f : Abs(d[1] - c[1]) + Abs(d[2] - c[2]) = 1}

\* The sets of cells an input DEM may lower.
LoweredSets == {T \in SUBSET Cells : Cardinality(T) <= MaxLowered}

\* The plateau at MaxElev with the cells of S lowered to the elevations v.
LoweredPlateau(S, v) == [c \in Cells |-> IF c \in S THEN v[c] ELSE MaxElev]

\* The corners of a raster of h rows and n columns.
Corners(h, n) == {<<1, 1>>, <<1, n>>, <<h, 1>>, <<h, n>>}

\* A flat plateau of h rows and n columns at elevation top whose corner cell
\* `outlet` lies at the lower elevation low.
PlateauWithOutlet(h, n, outlet, top, low) ==
    [c \in (1..h) \X (1..n) |-> IF c = outlet THEN low ELSE top]

(***************************************************************************)
(* fill_depressions.                                                       *)
(***************************************************************************)
\* filled_dem.min()
Marker_max(f) == CHOOSE x \in {f[c] : c \in DOMAIN f} : \A c \in DOMAIN f : f[c] <= x
Marker(f) == SetMin({f[c] : c \in DOMAIN f})

\* np.maximum(a, m) for a raster a and a scalar m
NpMaximumScalar_min(a, m) == [c \in DOMAIN a |-> IF a[c] <= m THEN a[c] ELSE m]
NpMaximumScalar(a, m) == [c \in DOMAIN a |-> IF a[c] >= m THEN a[c] ELSE m]

\* np.maximum(a, b) for two rasters of one shape
NpMaximum(a, b) == [c \in DOMAIN a |-> IF a[c] >= b[c] THEN a[c] ELSE b[c]]

\* filled_dem = np.maximum(dem, marker)
FilledEstimate_marker(d, m) == [c \in DOMAIN d |-> m]
FilledEstimate_above(d, m) == NpMaximumScalar(d, m + 1)
FilledEstimate(d, m) == NpMaximumScalar(d, m)

\* dem > filled_dem
DepressionMask(d, f) == {c \in DOMAIN d : d[c] > f[c]}

\* The cells of `mask` connected to the cells of `seen` through edge-adjacent
\* cells of the mask (scipy.ndimage.label's default structure).
RECURSIVE Component(_, _, _)
Component(f, mask, seen) ==
    LET more == {d \in mask \ seen : \E c \in seen : d \in Neighbors4(f, c)}
    IN  IF more = {} THEN seen ELSE Component(f, mask, seen \cup more)

\* num_features of label(mask): the number of connected components of the mask.
RECURSIVE NumFeatures(_, _)
NumFeatures(f, mask) ==
    IF mask = {} THEN 0
    ELSE LET c == CHOOSE x \in mask : TRUE
         IN  1 + NumFeatures(f, mask \ Component(f, mask, {c}))

\* fill_depressions is entered: filled_dem = dem.copy()
FillEnter ==
    /\ pc = "fill_call"
    /\ fd_dem' = dem
    /\ fd_filled' = dem
    /\ pc' = "fill_loop"
    /\ UNCHANGED <<dem, fd_marker, fd_num, fd_iter, filled_dem, accum_d8, twi, fia, slope,
                   flow_lines, cost_distance, DTW, dtw_error>>
    /\ UNCHANGED kernel_vars
    /\ UNCHANGED sampling_vars

\* One pass of the body of `while True`; on break the function returns
\* filled_dem and the notebook binds it to its own filled_dem.
FillIterate ==
    /\ pc = "fill_loop"
    /\ fd_iter < MaxIter
    /\ LET marker == Marker(fd_filled)
           filled == FilledEstimate(fd_dem, marker)
           num    == NumFeatures(fd_dem, DepressionMask(fd_dem, filled))
       IN  /\ fd_marker' = marker
           /\ fd_filled' = filled
           /\ fd_num' = num
           /\ fd_iter' = fd_iter + 1
           /\ IF num = 0
                 THEN /\ pc' = "filled"
                      /\ filled_dem' = filled
                      /\ UNCHANGED fd_dem
                 ELSE /\ pc' = "fill_loop"
                      /\ fd_dem' = NpMaximum(fd_dem, filled)
                      /\ UNCHANGED filled_dem
    /\ UNCHANGED <<dem, accum_d8, twi, fia, slope, flow_lines, cost_distance, DTW,
                   dtw_error>>
    /\ UNCHANGED kernel_vars
    /\ UNCHANGED sampling_vars

(***************************************************************************)
(* D8 flow routing and flow accumulation (rd.FlowAccumulation, method D8). *)
(***************************************************************************)
\* The 8 compass directions as <<row offset, column offset>>, by index.
D8Offsets ==
    <<  <<0, -1>>, <<-1, -1>>, <<-1, 0>>, <<-1, 1>>,
        <<0, 1>>,  <<1, 1>>,   <<1, 0>>,  <<1, -1>>  >>

D8Neighbor(c, i) == <<c[1] + D8Offsets[i][1], c[2] + D8Offsets[i][2]>>

\* The squared descent from c in direction i, scaled by 2: drop^2 / distance^2
\* with distance^2 = 1 along a row or column and 2 along a diagonal.
D8Steepness(f, c, i) ==
    LET drop == f[c] - f[D8Neighbor(c, i)]
    IN  IF D8Offsets[i][1] # 0 /\ D8Offsets[i][2] # 0 THEN drop * drop
        ELSE 2 * drop * drop

\* The directions of c that lead to a strictly lower cell of the raster.
D8Descents(f, c) ==
    {i \in 1..8 : D8Neighbor(c, i) \in DOMAIN f /\ f[D8Neighbor(c, i)] < f[c]}

\* The flow direction of c: the steepest descent, the lowest index among
\* ties; 0 (no outflow) when no neighbour is lower.
FlowDirection(f, c) ==
    LET down == D8Descents(f, c)
    IN  IF down = {} THEN 0
        ELSE SetMin({i \in down :
                        \A j \in down : D8Steepness(f, c, j) <= D8Steepness(f, c, i)})

\* The cells without outflow.
NoOutflow(f) == {c \in DOMAIN f : FlowDirection(f, c) = 0}

\* The cell c drains into; only for a cell with outflow.
Downstream(f, c) == D8Neighbor(c, FlowDirection(f, c))

\* Cells taken from highest to lowest, each adding its count to the cell it
\* drains into.
RECURSIVE Propagate(_, _, _)
Propagate(f, acc, todo) ==
    IF todo = {} THEN acc
    ELSE LET c == CHOOSE x \in todo : \A y \in todo : f[y] <= f[x]
             next == IF FlowDirection(f, c) = 0 THEN acc
                     ELSE [acc EXCEPT ![Downstream(f, c)] = @ + acc[c]]
         IN  Propagate(f, next, todo \ {c})

\* Every cell starts with its own count of 1.
FlowAccumulation_uncounted(f) == Propagate(f, [c \in DOMAIN f |-> 0], DOMAIN f)
FlowAccumulation(f) == Propagate(f, [c \in DOMAIN f |-> 1], DOMAIN f)

(***************************************************************************)
(* Slope and Topographic Wetness Index (the TWI cell).                     *)
(***************************************************************************)
\* The elevation of the neighbour of c at the offset <<dr, dc>>; off the
\* raster, the elevation of c itself.
ElevAt(f, c, dr, dc) ==
    LET d == <<c[1] + dr, c[2] + dc>> IN IF d \in DOMAIN f THEN f[d] ELSE f[c]

\* 8 times the gradient along the columns and along the rows (Horn's
\* weights on the 3 x 3 neighbourhood, cell size 1).
HornX(f, c) ==
    (ElevAt(f, c, -1, 1) + 2 * ElevAt(f, c, 0, 1) + ElevAt(f, c, 1, 1))
        - (ElevAt(f, c, -1, -1) + 2 * ElevAt(f, c, 0, -1) + ElevAt(f, c, 1, -1))
HornY(f, c) ==
    (ElevAt(f, c, 1, -1) + 2 * ElevAt(f, c, 1, 0) + ElevAt(f, c, 1, 1))
        - (ElevAt(f, c, -1, -1) + 2 * ElevAt(f, c, -1, 0) + ElevAt(f, c, -1, 1))

\* rd.TerrainAttribute(filled_dem_rd, attrib='slope_radians'): the angle whose
\* tangent is the gradient magnitude, kept as (8 * tan(slope))^2.
SlopeRadians(f) == [c \in DOMAIN f |-> HornX(f, c) * HornX(f, c) + HornY(f, c) * HornY(f, c)]

\* np.tan(slope) + 0.01, kept as the pair of (8 * tan(slope))^2 and the
\* hundredths added to the tangent.
TwiDenominator_noeps(t2) == [tan2 |-> t2, eps |-> 0]
TwiDenominator(t2) == [tan2 |-> t2, eps |-> 1]

\* The kind of value np.log(a / den) is for an accumulation a and a
\* denominator den >= 0: division by zero gives inf (nan for 0 / 0), the
\* logarithm of 0 is -inf and of a negative number nan.
LogOfQuotient(a, den) ==
    IF den.tan2 = 0 /\ den.eps = 0
    THEN IF a > 0 THEN "inf" ELSE "nan"
    ELSE IF a > 0 THEN "finite" ELSE IF a = 0 THEN "-inf" ELSE "nan"

\* twi = np.log(accum_d8 / (np.tan(slope) + 0.01)): per cell the
\* accumulation, the denominator and the kind of the resulting value.
Twi(acc, s) ==
    [c \in DOMAIN acc |->
        [accum |-> acc[c],
         den   |-> TwiDenominator(s[c]),
         kind  |-> LogOfQuotient(acc[c], TwiDenominator(s[c]))]]

\* The TWI cell: slope = rd.TerrainAttribute(...), accum_d8 =
\* rd.FlowAccumulation(filled_dem_rd, method='D8'), twi = np.log(...).
FlowAccumulationCell ==
    /\ pc = "filled"
    /\ \E acc \in {FlowAccumulation(filled_dem)} :
       \E s \in {SlopeRadians(filled_dem)} :
          /\ slope' = s
          /\ accum_d8' = acc
          /\ twi' = Twi(acc, s)
    /\ pc' = "twi"
    /\ UNCHANGED <<dem, fd_dem, fd_filled, fd_marker, fd_num, fd_iter, filled_dem,
                   fia, flow_lines, cost_distance, DTW, dtw_error>>
    /\ UNCHANGED kernel_vars
    /\ UNCHANGED sampling_vars

(***************************************************************************)
(* calcDTW.                                                                *)
(***************************************************************************)
ResolutionY == -30
ResolutionX == 30

\* The values of fia the model runs, in hundredths of a hectare.
FiaValues == {9, 18, 27, 100}

\* The percent slope rasters the model runs: base + step * (row - 1).
SlopeBases == {0, 50}
SlopeSteps == {0, 25}
SlopeRaster(base, step) == [c \in Cells |-> base + step * (c[1] - 1)]

\* accum_d8 >= t with t = fia * 10000 / (abs(resolution[0]) * abs(resolution[1])),
\* fia given in hundredths: a * 100 * |ry| * |rx| >= fia100 * 10000.
MeetsThreshold_strict(a, fia100) ==
    a * 100 * Abs(ResolutionY) * Abs(ResolutionX) > fia100 * 10000
MeetsThreshold(a, fia100) ==
    a * 100 * Abs(ResolutionY) * Abs(ResolutionX) >= fia100 * 10000

\* flow_lines = accum_d8 >= t
FlowLines_below(acc, fia100) == {c \in DOMAIN acc : ~MeetsThreshold(acc[c], fia100 + 1)}
FlowLines(acc, fia100) == {c \in DOMAIN acc : MeetsThreshold(acc[c], fia100)}

SqDist(c, d) == (c[1] - d[1]) * (c[1] - d[1]) + (c[2] - d[2]) * (c[2] - d[2])

\* distance_transform_edt(~flow_lines), squared: 0 on a channel cell, else the
\* squared distance to the nearest channel cell. Without any channel cell
\* scipy measures from the index <<-1, -1>> (0-based), here <<0, 0>>.
CostDistance_farthest(f, lines) ==
    [c \in DOMAIN f |->
        IF lines = {} THEN SqDist(c, <<0, 0>>)
        ELSE CHOOSE x \in {SqDist(c, d) : d \in lines} :
                 \A y \in {SqDist(c, d) : d \in lines} : y <= x]
CostDistance_uninverted(f, lines) ==
    [c \in DOMAIN f |->
        IF lines = DOMAIN f THEN SqDist(c, <<0, 0>>)
        ELSE SetMin({SqDist(c, d) : d \in DOMAIN f \ lines})]
CostDistance(f, lines) ==
    [c \in DOMAIN f |->
        IF lines = {} THEN SqDist(c, <<0, 0>>)
        ELSE SetMin({SqDist(c, d) : d \in lines})]

\* DTW = cost_distance * (slope / 100), kept as (100 * DTW)^2.
DepthToWater(cost, s) == [c \in DOMAIN cost |-> cost[c] * s[c] * s[c]]

\* dtw = calcDTW(fia, filled_dem, slope)
CalcDTW ==
    /\ pc = "twi"
    /\ \E acc \in {FlowAccumulation(filled_dem)} :
       \E f100 \in FiaValues :
       \E lines \in {FlowLines(acc, f100)} :
       \E cost \in {CostDistance(filled_dem, lines)} :
       \E base \in SlopeBases, step \in SlopeSteps :
          /\ fia' = f100
          /\ slope' = SlopeRaster(base, step)
          /\ flow_lines' = lines
          /\ cost_distance' = cost
          /\ DTW' = DepthToWater(cost, SlopeRaster(base, step))
          /\ dtw_error' = "none"
    /\ pc' = "dtw"
    /\ UNCHANGED <<dem, fd_dem, fd_filled, fd_marker, fd_num, fd_iter, filled_dem,
                   accum_d8, twi>>
    /\ UNCHANGED kernel_vars
    /\ UNCHANGED sampling_vars

\* The shape <<rows, columns>> of a raster.
ShapeOf(r) ==
    <<CHOOSE i \in 1..Cardinality(DOMAIN r) : \A c \in DOMAIN r : c[1] <= i /\ \E d \in DOMAIN r : d[1] = i,
      CHOOSE j \in 1..Cardinality(DOMAIN r) : \A c \in DOMAIN r : c[2] <= j /\ \E d \in DOMAIN r : d[2] = j>>

\* numpy broadcasting of two 2-D shapes: each pair of dimensions is equal or
\* one of the two is 1.
Broadcastable(sa, sb) ==
    /\ sa[1] = sb[1] \/ sa[1] = 1 \/ sb[1] = 1
    /\ sa[2] = sb[2] \/ sa[2] = 1 \/ sb[2] = 1

Max2(a, b) == IF a >= b THEN a ELSE b

\* The entry of r that broadcasting reads at the cell c of the result.
BroadcastAt(r, c) ==
    r[<<IF ShapeOf(r)[1] = 1 THEN 1 ELSE c[1], IF ShapeOf(r)[2] = 1 THEN 1 ELSE c[2]>>]

ErrBroadcast == "ValueError: operands could not be broadcast together"

\* cost_distance * (slope / 100) for arrays of any two shapes, kept as
\* (100 * DTW)^2: the broadcast product, or the error numpy raises.
MultiplyArrays(cost, s) ==
    IF Broadcastable(ShapeOf(cost), ShapeOf(s))
    THEN [error |-> "none",
          value |-> [c \in (1..Max2(ShapeOf(cost)[1], ShapeOf(s)[1]))
                            \X (1..Max2(ShapeOf(cost)[2], ShapeOf(s)[2])) |->
                        BroadcastAt(cost, c) * BroadcastAt(s, c) * BroadcastAt(s, c)]]
    ELSE [error |-> ErrBroadcast, value |-> NoRaster]

\* The shapes of a slope raster that is not on the grid of the <<h, n>> DEM.
ForeignShapes(h, n) == {<<1, n>>, <<h, 1>>, <<h + 1, n>>, <<h, n + 1>>}

\* dtw = calcDTW(fia, filled_dem, slope) with a slope raster of another shape
\* than filled_dem: every step up to cost_distance works on filled_dem alone,
\* the product of step 4 is the first use of slope.
CalcDTWForeignSlope ==
    /\ pc = "twi"
    /\ \E acc \in {FlowAccumulation(filled_dem)} :
       \E f100 \in FiaValues :
       \E lines \in {FlowLines(acc, f100)} :
       \E cost \in {CostDistance(filled_dem, lines)} :
       \E shape \in ForeignShapes(ShapeOf(filled_dem)[1], ShapeOf(filled_dem)[2]) :
       \E base \in SlopeBases :
       \E s \in {[c \in (1..shape[1]) \X (1..shape[2]) |-> base]} :
       \E product \in {MultiplyArrays(cost, s)} :
          /\ fia' = f100
          /\ slope' = s
          /\ flow_lines' = lines
          /\ cost_distance' = cost
          /\ DTW' = product.value
          /\ dtw_error' = product.error
          /\ pc' = IF product.error = "none" THEN "dtw" ELSE "dtw_raised"
    /\ UNCHANGED <<dem, fd_dem, fd_filled, fd_marker, fd_num, fd_iter, filled_dem,
                   accum_d8, twi>>
    /\ UNCHANGED kernel_vars
    /\ UNCHANGED sampling_vars

(***************************************************************************)
(* create_kernel.  A kernel is a function on <<row, col>> with 0-based     *)
(* indices, rows 0..ky-1 and columns 0..kx-1.                              *)
(***************************************************************************)
Methods == {"queen", "rook", "bishop", "circle", "annulus"}

Windows == (1..MaxK) \X (1..MaxK)

KernelCells(ky, kx) == (0..(ky - 1)) \X (0..(kx - 1))

\* np.zeros((ky, kx))
KernelZeros(ky, kx) == [c \in KernelCells(ky, kx) |-> 0]

\* The sum of the entries of a kernel.
KernelSum(k) == SetSum(k, DOMAIN k)

\* np.fill_diagonal(a, 1) on a 2-D array of kx columns: a.flat[:kx*kx:kx+1] = 1
FillDiagonal(a, kx) ==
    [c \in DOMAIN a |->
        LET n == c[1] * kx + c[2]
        IN  IF n % (kx + 1) = 0 /\ n < kx * kx THEN 1 ELSE a[c]]

\* np.fliplr(a) for an array of kx columns
FlipLR(a, kx) == [c \in DOMAIN a |-> a[<<c[1], kx - 1 - c[2]>>]]

\* kernel[:, :] = 1
KernelQueen(ky, kx) == [c \in KernelCells(ky, kx) |-> 1]

\* kernel[jy, :] = 1; kernel[:, jx] = 1
KernelRook_rowonly(ky, kx) ==
    [c \in KernelCells(ky, kx) |-> IF c[1] = ky \div 2 THEN 1 ELSE 0]
KernelRook(ky, kx) ==
    [c \in KernelCells(ky, kx) |->
        IF c[1] = ky \div 2 \/ c[2] = kx \div 2 THEN 1 ELSE 0]

\* np.fill_diagonal(kernel, 1); np.fill_diagonal(np.fliplr(kernel), 1): the
\* second call writes through the flipped view into the kernel.
KernelBishop(ky, kx) ==
    FlipLR(FillDiagonal(FlipLR(FillDiagonal(KernelZeros(ky, kx), kx), kx), kx), kx)

\* y, x = np.ogrid[-jy:jy+1, -jx:jx+1]: the masks have 2*jy+1 rows and
\* 2*jx+1 columns, entry <<i, j>> standing for y = i - jy, x = j - jx.
MaskCells(ky, kx) == KernelCells(2 * (ky \div 2) + 1, 2 * (kx \div 2) + 1)

MaskSq(ky, kx, c) ==
    (c[2] - kx \div 2) * (c[2] - kx \div 2) + (c[1] - ky \div 2) * (c[1] - ky \div 2)

\* x**2 + y**2 <= (kx // 2) ** 2
OuterMask_strict(ky, kx) ==
    {c \in MaskCells(ky, kx) : MaskSq(ky, kx, c) < (kx \div 2) * (kx \div 2)}
OuterMask(ky, kx) ==
    {c \in MaskCells(ky, kx) : MaskSq(ky, kx, c) <= (kx \div 2) * (kx \div 2)}

\* x**2 + y**2 < ((kx // 2) - 1) ** 2
InnerMask(ky, kx) ==
    {c \in MaskCells(ky, kx) : MaskSq(ky, kx, c) < (kx \div 2 - 1) * (kx \div 2 - 1)}

\* kernel[mask] = v needs a mask of the kernel's shape; numpy raises
\* IndexError otherwise.
MaskFits_always(ky, kx) == TRUE
MaskFits(ky, kx) == MaskCells(ky, kx) = KernelCells(ky, kx)

KernelCircle(ky, kx) ==
    [c \in KernelCells(ky, kx) |-> IF c \in OuterMask(ky, kx) THEN 1 ELSE 0]

KernelAnnulus(ky, kx) ==
    [c \in KernelCells(ky, kx) |->
        IF c \in InnerMask(ky, kx) THEN 0
        ELSE IF c \in OuterMask(ky, kx) THEN 1 ELSE 0]

\* create_kernel(w, method) with w = <<kx, ky>>: the exception it raises
\* ("none" when it returns) and the kernel it returns.
CreateKernel(win, meth) ==
    LET kx == win[1]
        ky == win[2]
    IN  CASE meth = "queen"  -> [error |-> "none", kernel |-> KernelQueen(ky, kx)]
          [] meth = "rook"   -> [error |-> "none", kernel |-> KernelRook(ky, kx)]
          [] meth = "bishop" -> [error |-> "none", kernel |-> KernelBishop(ky, kx)]
          [] meth = "circle" ->
                IF MaskFits(ky, kx)
                THEN [error |-> "none", kernel |-> KernelCircle(ky, kx)]
                ELSE [error |-> "IndexError", kernel |-> NoRaster]
          [] meth = "annulus" ->
                IF MaskFits(ky, kx)
                THEN [error |-> "none", kernel |-> KernelAnnulus(ky, kx)]
                ELSE [error |-> "IndexError", kernel |-> NoRaster]
          [] OTHER -> [error |-> "none", kernel |-> KernelZeros(ky, kx)]

\* create_kernel called on its own.
CreateKernelCall ==
    /\ k_call = "create_kernel"
    /\ k_pc = "call"
    /\ LET r == CreateKernel(w, method)
       IN  /\ k_error' = r.error
           /\ kernel' = r.kernel
           /\ k_pc' = IF r.error = "none" THEN "returned" ELSE "raised"
    /\ UNCHANGED <<k_call, w, method, unit, ti_result, driver_vars>>
    /\ UNCHANGED hydro_vars
    /\ UNCHANGED sampling_vars

(***************************************************************************)
(* terrain_indices.                                                        *)
(***************************************************************************)
ErrTooSmall == "ValueError: Window size must be at least 3x3"
ErrEven == "ValueError: Window size must be odd"

\* The checks at the head of terrain_indices: the error raised, or "none".
WindowError_above3(win) ==
    IF SetMin({win[1], win[2]}) <= 3 THEN ErrTooSmall
    ELSE IF win[1] % 2 = 0 \/ win[2] % 2 = 0 THEN ErrEven
    ELSE "none"
WindowError(win) ==
    IF SetMin({win[1], win[2]}) < 3 THEN ErrTooSmall
    ELSE IF win[1] % 2 = 0 \/ win[2] % 2 = 0 THEN ErrEven
    ELSE "none"

Units == {"degrees", "radians"}

\* The DEMs handed to terrain_indices: the plane with the slopes a along the
\* rows and b along the columns, raised by h at the centre cell of the grid.
TerrainCells == (1..GridRows) \X (1..GridCols)
RowSlopes == {0, 1}
ColSlopes == {0, 2}
BumpHeights == {0, 3}
TerrainDem(a, b, h) ==
    [c \in TerrainCells |->
        a * (c[1] - 1) + b * (c[2] - 1)
            + IF c = <<(GridRows + 1) \div 2, (GridCols + 1) \div 2>> THEN h ELSE 0]

\* The entry of a DEM that stands for NaN: a cell outside the area of
\* interest, which ds_elev.where(aoi_raster == 1) sets to NaN.
NanElev == 0 - 1

\* The plane with a no-data cell at the centre of the grid.
TerrainDemWithHole(a, b) ==
    [c \in TerrainCells |->
        IF c = <<(GridRows + 1) \div 2, (GridCols + 1) \div 2>> THEN NanElev
        ELSE a * (c[1] - 1) + b * (c[2] - 1)]

TerrainDems ==
    {TerrainDem(a, b, h) : a \in RowSlopes, b \in ColSlopes, h \in BumpHeights}
        \cup {TerrainDemWithHole(a, b) : a \in RowSlopes, b \in ColSlopes}

\* A float of a raster: NaN or a number. A raster of floats is kept exact as
\* [scale, cells]: the value at c is cells[c].v / scale, or NaN.
NaN == [nan |-> TRUE, v |-> 0]
Num(x) == [nan |-> FALSE, v |-> x]

Plus(x, y) == IF x.nan \/ y.nan THEN NaN ELSE Num(x.v + y.v)
Minus(x, y) == IF x.nan \/ y.nan THEN NaN ELSE Num(x.v - y.v)
Twice(x) == IF x.nan THEN NaN ELSE Num(2 * x.v)

\* The raster of an integer array.
FromInts(f) ==
    [scale |-> 1,
     cells |-> [c \in DOMAIN f |-> IF f[c] = NanElev THEN NaN ELSE Num(f[c])]]

\* The raster r with its values written over the denominator m * r.scale.
Rescale(r, m) ==
    [scale |-> m * r.scale,
     cells |-> [c \in DOMAIN r.cells |->
                   IF r.cells[c].nan THEN NaN ELSE Num(m * r.cells[c].v)]]

\* m * r for an integer m
Scaled_magnitude(m, r) ==
    [scale |-> r.scale,
     cells |-> [c \in DOMAIN r.cells |->
                   IF r.cells[c].nan THEN NaN ELSE Num(Abs(m) * r.cells[c].v)]]
Scaled(m, r) ==
    [scale |-> r.scale,
     cells |-> [c \in DOMAIN r.cells |->
                   IF r.cells[c].nan THEN NaN ELSE Num(m * r.cells[c].v)]]

\* a - b and a + b of two rasters of one shape, the scale of one being a
\* multiple of the scale of the other.
RasterMinus(a, b) ==
    LET x == IF b.scale > a.scale THEN Rescale(a, b.scale \div a.scale) ELSE a
        y == IF a.scale > b.scale THEN Rescale(b, a.scale \div b.scale) ELSE b
    IN  [scale |-> x.scale,
         cells |-> [c \in DOMAIN x.cells |-> Minus(x.cells[c], y.cells[c])]]
RasterPlus(a, b) ==
    LET x == IF b.scale > a.scale THEN Rescale(a, b.scale \div a.scale) ELSE a
        y == IF a.scale > b.scale THEN Rescale(b, a.scale \div b.scale) ELSE b
    IN  [scale |-> x.scale,
         cells |-> [c \in DOMAIN x.cells |-> Plus(x.cells[c], y.cells[c])]]

\* The sum of k[p] * val[p] over the positions p of taps.
RECURSIVE WeightedSum(_, _, _)
WeightedSum(k, val, taps) ==
    IF taps = {} THEN 0
    ELSE LET p == CHOOSE q \in taps : TRUE
         IN  k[p] * val[p] + WeightedSum(k, val, taps \ {p})

\* The cell of the input that the kernel position p meets at the output cell
\* c: a convolution mirrors the kernel about its centre <<ky // 2, kx // 2>>.
ConvolveSource(c, p, ky, kx) == <<c[1] + ky \div 2 - p[1], c[2] + kx \div 2 - p[2]>>

\* ndimage.convolve(arr, kernel, mode='constant', cval=np.nan) at the cell c,
\* for the weights k[p] / n: the positions of weight 0 are not visited, a
\* position off the raster reads the fill value NaN, and NaN propagates
\* through the sum. The result is kept as the sum of k[p] * arr[...].
ConvolveAt_zerofill(cells, k, ky, kx, c) ==
    LET taps == {p \in DOMAIN k :
                    k[p] # 0 /\ ConvolveSource(c, p, ky, kx) \in DOMAIN cells}
    IN  IF \E p \in taps : cells[ConvolveSource(c, p, ky, kx)].nan THEN NaN
        ELSE Num(WeightedSum(k, [p \in taps |-> cells[ConvolveSource(c, p, ky, kx)].v],
                             taps))
ConvolveAt(cells, k, ky, kx, c) ==
    LET taps == {p \in DOMAIN k : k[p] # 0}
    IN  IF \E p \in taps : \/ ConvolveSource(c, p, ky, kx) \notin DOMAIN cells
                            \/ cells[ConvolveSource(c, p, ky, kx)].nan
        THEN NaN
        ELSE Num(WeightedSum(k, [p \in taps |-> cells[ConvolveSource(c, p, ky, kx)].v],
                             taps))

\* focal_mean(arr, kernel): kernel = kernel / kernel.sum(), then the
\* convolution; the division goes into the scale.
FocalMean(r, k, ky, kx) ==
    [scale |-> r.scale * KernelSum(k),
     cells |-> [c \in DOMAIN r.cells |-> ConvolveAt(r.cells, k, ky, kx, c)]]

\* np.gradient(r) along the axis (1 = rows, 2 = columns): central differences
\* (f[i+1] - f[i-1]) / 2 inside, one-sided differences on the first and last
\* index.
GradientAlong(r, axis) ==
    [scale |-> 2 * r.scale,
     cells |-> [c \in DOMAIN r.cells |->
        LET lo == IF axis = 1 THEN <<c[1] - 1, c[2]>> ELSE <<c[1], c[2] - 1>>
            hi == IF axis = 1 THEN <<c[1] + 1, c[2]>> ELSE <<c[1], c[2] + 1>>
        IN  IF lo \notin DOMAIN r.cells THEN Twice(Minus(r.cells[hi], r.cells[c]))
            ELSE IF hi \notin DOMAIN r.cells THEN Twice(Minus(r.cells[c], r.cells[lo]))
            ELSE Minus(r.cells[hi], r.cells[lo])]]

\* slope_k = np.arctan(np.hypot(dz_dx, dz_dy)), in degrees when unit is
\* 'degrees': kept as the squared tangent (over scale^2) and the unit.
SlopeOf(gx, gy, u) ==
    [scale |-> gx.scale,
     unit  |-> IF u = "degrees" THEN "degrees" ELSE "radians",
     cells |-> [c \in DOMAIN gx.cells |->
                   IF gx.cells[c].nan \/ gy.cells[c].nan THEN NaN
                   ELSE Num(gx.cells[c].v * gx.cells[c].v + gy.cells[c].v * gy.cells[c].v)]]

\* A combination cos2 * cos(aspect)^2 + sin2 * sin(aspect)^2 + sincos *
\* sin(aspect) * cos(aspect) of three rasters, where aspect is
\* (-pi/2) - arctan2(dz_dy, dz_dx) wrapped to non-negative and handed to
\* np.cos and np.sin in the unit u. Kept per cell as the three coefficients
\* (over scale), the two gradients the aspect comes from, and the unit.
AspectCombination(cos2, sin2, sincos, gx, gy, u) ==
    [scale |-> cos2.scale,
     unit  |-> IF u = "degrees" THEN "degrees" ELSE "radians",
     cells |-> [c \in DOMAIN cos2.cells |->
                   IF \/ cos2.cells[c].nan \/ sin2.cells[c].nan \/ sincos.cells[c].nan
                      \/ gx.cells[c].nan \/ gy.cells[c].nan
                   THEN NaN
                   ELSE Num([cos2 |-> cos2.cells[c].v, sin2 |-> sin2.cells[c].v,
                             sincos |-> sincos.cells[c].v,
                             dz_dx |-> gx.cells[c].v, dz_dy |-> gy.cells[c].v])]]

\* result = {'Slope': ..., 'Curvature': ..., 'Profile_curvature': ...,
\*           'Planform_curvature': ..., 'TPI': ...}
TerrainResult_notpi(slope_k, curvature_k, profile_k, planform_k, tpi_k) ==
    [Slope |-> slope_k, Curvature |-> curvature_k, Profile_curvature |-> profile_k,
     Planform_curvature |-> planform_k]
TerrainResult(slope_k, curvature_k, profile_k, planform_k, tpi_k) ==
    [Slope |-> slope_k, Curvature |-> curvature_k, Profile_curvature |-> profile_k,
     Planform_curvature |-> planform_k, TPI |-> tpi_k]

\* The array handed to ndimage.convolve after the call: the convolution
\* writes its output to a new array.
ArrayAfterConvolve_inplace(arr, out) == [c \in DOMAIN arr |-> out.cells[c].v]
ArrayAfterConvolve(arr, out) == arr

\* terrain_indices checks the window and raises or goes on.
TerrainValidate ==
    /\ k_call = "terrain_indices"
    /\ k_pc = "call"
    /\ k_error' = WindowError(w)
    /\ k_pc' = IF WindowError(w) = "none" THEN "validated" ELSE "raised"
    /\ UNCHANGED <<k_call, w, method, unit, kernel, ti_result, driver_vars>>
    /\ UNCHANGED hydro_vars
    /\ UNCHANGED sampling_vars

\* kernel = create_kernel(w, method)
TerrainCreateKernel ==
    /\ k_call = "terrain_indices"
    /\ k_pc = "validated"
    /\ LET r == CreateKernel(w, method)
       IN  /\ k_error' = r.error
           /\ kernel' = r.kernel
           /\ k_pc' = IF r.error = "none" THEN "kernel" ELSE "raised"
    /\ UNCHANGED <<k_call, w, method, unit, ti_result, driver_vars>>
    /\ UNCHANGED hydro_vars
    /\ UNCHANGED sampling_vars

\* The body of terrain_indices after the kernel is built, up to the return.
TerrainReturn ==
    /\ k_call = "terrain_indices"
    /\ k_pc = "kernel"
    /\ \E ky \in {w[2]}, kx \in {w[1]} :
       \E smoothed_dem \in {FocalMean(FromInts(filled_dem), kernel, ky, kx)} :
       \E dz_dx \in {GradientAlong(smoothed_dem, 1)} :
       \E dz_dy \in {GradientAlong(smoothed_dem, 2)} :
       \E fm_dx \in {FocalMean(dz_dx, kernel, ky, kx)} :
       \E fm_dy \in {FocalMean(dz_dy, kernel, ky, kx)} :
       \E dz2_dx2 \in {RasterMinus(fm_dx, dz_dx)} :
       \E dz2_dy2 \in {RasterMinus(fm_dy, dz_dy)} :
       \E dz2_dxdy \in {RasterMinus(fm_dx, fm_dy)} :
       \E focal_mean_tpi \in {FocalMean(smoothed_dem, kernel, ky, kx)} :
          /\ ti_result' =
                TerrainResult(
                    SlopeOf(dz_dx, dz_dy, unit),
                    RasterPlus(dz2_dx2, dz2_dy2),
                    AspectCombination(dz2_dy2, dz2_dx2, Scaled(2, dz2_dxdy),
                                      dz_dx, dz_dy, unit),
                    AspectCombination(dz2_dx2, dz2_dy2, Scaled(0 - 2, dz2_dxdy),
                                      dz_dx, dz_dy, unit),
                    RasterMinus(smoothed_dem, focal_mean_tpi))
          /\ filled_dem' = ArrayAfterConvolve(filled_dem, smoothed_dem)
    /\ k_pc' = "returned"
    /\ UNCHANGED <<k_call, w, method, unit, kernel, k_error, driver_vars>>
    /\ UNCHANGED <<pc, dem, fd_dem, fd_filled, fd_marker, fd_num, fd_iter, accum_d8, twi,
                   fia, slope, flow_lines, cost_distance, DTW, dtw_error>>
    /\ UNCHANGED sampling_vars

(***************************************************************************)
(* The multi-scale driver loop: for w in window_sizes.                     *)
(***************************************************************************)
\* The windows a list handed to the loop is made of.
DriverWindows == {<<3, 3>>, <<3, 5>>, <<4, 4>>}

\* The metres written into a file name for the window win: 30 * w[0].
NameMetres == 30
FileName(metric, win) == <<metric, NameMetres * win[1]>>

\* data[metric][w] = result, for every metric of results.
DataAfter(d, results, win) ==
    [p \in DOMAIN d \cup {<<n, win>> : n \in DOMAIN results} |->
        IF p[2] = win /\ p[1] \in DOMAIN results THEN results[p[1]] ELSE d[p]]

\* write_cog(result_da, fname=..., overwrite=True), for every metric of results.
WrittenAfter(files, results, win) ==
    [f \in DOMAIN files \cup {FileName(n, win) : n \in DOMAIN results} |->
        IF \E n \in DOMAIN results : f = FileName(n, win)
        THEN results[CHOOSE n \in DOMAIN results : f = FileName(n, win)]
        ELSE files[f]]

\* The loop takes the next window and calls terrain_indices(filled_dem, w=w),
\* the unit and the method being the defaults.
DriverCall ==
    /\ d_pc = "loop"
    /\ d_i < Len(window_sizes)
    /\ d_i' = d_i + 1
    /\ w' = window_sizes[d_i + 1]
    /\ method' = "queen"
    /\ unit' = "degrees"
    /\ k_call' = "terrain_indices"
    /\ k_pc' = "call"
    /\ kernel' = NoRaster
    /\ k_error' = "none"
    /\ ti_result' = NoResult
    /\ d_pc' = "calling"
    /\ UNCHANGED <<window_sizes, data, written>>
    /\ UNCHANGED hydro_vars
    /\ UNCHANGED sampling_vars

\* terrain_indices has returned: the inner loop over results.items().
DriverStore ==
    /\ d_pc = "calling"
    /\ k_pc = "returned"
    /\ data' = DataAfter(data, ti_result, w)
    /\ written' = WrittenAfter(written, ti_result, w)
    /\ d_pc' = "loop"
    /\ UNCHANGED <<window_sizes, d_i>>
    /\ UNCHANGED <<k_pc, k_call, w, method, unit, kernel, k_error, ti_result>>
    /\ UNCHANGED hydro_vars
    /\ UNCHANGED sampling_vars

\* terrain_indices has raised: the error leaves the loop.
DriverRaise ==
    /\ d_pc = "calling"
    /\ k_pc = "raised"
    /\ d_pc' = "raised"
    /\ UNCHANGED <<window_sizes, d_i, data, written>>
    /\ UNCHANGED <<k_pc, k_call, w, method, unit, kernel, k_error, ti_result>>
    /\ UNCHANGED hydro_vars
    /\ UNCHANGED sampling_vars

\* The list is exhausted.
DriverDone ==
    /\ d_pc = "loop"
    /\ d_i = Len(window_sizes)
    /\ d_pc' = "done"
    /\ UNCHANGED <<window_sizes, d_i, data, written>>
    /\ UNCHANGED <<k_pc, k_call, w, method, unit, kernel, k_error, ti_result>>
    /\ UNCHANGED hydro_vars
    /\ UNCHANGED sampling_vars

(***************************************************************************)
(* Stratified sampling of wetland points (training-data notebook).  The    *)
(* classes are 1..n in the order groupby yields them; wetland_points is    *)
(* kept as the number of points of each class in the list.                 *)
(***************************************************************************)
\* The areas a class may have, and the area vectors of the inputs: their sum
\* is a power of two, so that strata_props * total_points is exact in floats.
AreaChoices == {1, 2, 3}
AreaVectors ==
    UNION {{v \in [1..n -> AreaChoices] : SetSum(v, 1..n) \in {1, 2, 4, 8}} :
              n \in 1..MaxClasses}

\* The values of total_points tried for n classes.
TotalPointChoices(n) == {MinPoints * n - 1, MinPoints * n, MinPoints * n + 100}

\* np.ceil(strata_props[class_name] * total_points).astype(int), raised to
\* 300 when below.
NumPoints_nofloor(areas, c, total) ==
    (areas[c] * total + SetSum(areas, DOMAIN areas) - 1) \div SetSum(areas, DOMAIN areas)
NumPoints(areas, c, total) ==
    LET raw == (areas[c] * total + SetSum(areas, DOMAIN areas) - 1)
                  \div SetSum(areas, DOMAIN areas)
    IN  IF raw < MinPoints THEN MinPoints ELSE raw

\* The class counts of the lists of k points drawn without replacement from
\* a list with have[c] points of class c, for the classes 1..i.
RECURSIVE KeptCounts(_, _, _)
KeptCounts(have, i, k) ==
    IF i = 0 THEN (IF k = 0 THEN {<< >>} ELSE {})
    ELSE LET before == SetSum(have, 1..(i - 1))
             lo == IF k - before > 0 THEN k - before ELSE 0
             hi == IF have[i] < k THEN have[i] ELSE k
         IN  UNION {{Append(kept, x) : kept \in KeptCounts(have, i - 1, k - x)} : x \in lo..hi}

\* wetland_points after "if len(wetland_points) > total_points:
\* wetland_points = random.sample(wetland_points, total_points)".
WithoutExcess_kept(have, total) == {have}
WithoutExcess(have, total) ==
    IF SetSum(have, DOMAIN have) > total THEN KeptCounts(have, Len(have), total)
    ELSE {have}

\* The for loop takes the next class: num_points, points_sampled = 0.
SamplingClassEnter ==
    /\ s_pc = "for"
    /\ s_i < Len(strata_areas)
    /\ s_i' = s_i + 1
    /\ num_points' = NumPoints(strata_areas, s_i + 1, total_points)
    /\ points_sampled' = 0
    /\ s_pc' = "while"
    /\ UNCHANGED <<strata_areas, total_points, wetland_points, class_points_dict>>
    /\ UNCHANGED <<hydro_vars, kernel_vars>>

\* One pass of the while loop: a point is drawn in the bounding box of a
\* polygon of the class and appended when the polygon contains it.
SampleIteration ==
    /\ s_pc = "while"
    /\ points_sampled < num_points
    /\ \E contained \in BOOLEAN :
          IF contained
          THEN /\ wetland_points' = [wetland_points EXCEPT ![s_i] = @ + 1]
               /\ points_sampled' = points_sampled + 1
          ELSE UNCHANGED <<wetland_points, points_sampled>>
    /\ UNCHANGED <<s_pc, strata_areas, total_points, s_i, num_points, class_points_dict>>
    /\ UNCHANGED <<hydro_vars, kernel_vars>>

\* The while loop is left: the excess is removed and the count of the class
\* is stored.
SamplingClassLeave ==
    /\ s_pc = "while"
    /\ points_sampled >= num_points
    /\ wetland_points' \in WithoutExcess(wetland_points, total_points)
    /\ class_points_dict' = Append(class_points_dict, points_sampled)
    /\ s_pc' = "for"
    /\ UNCHANGED <<strata_areas, total_points, s_i, num_points, points_sampled>>
    /\ UNCHANGED <<hydro_vars, kernel_vars>>

\* The for loop has taken every class.
SamplingDone ==
    /\ s_pc = "for"
    /\ s_i = Len(strata_areas)
    /\ s_pc' = "done"
    /\ UNCHANGED <<strata_areas, total_points, s_i, num_points, points_sampled,
                   wetland_points, class_points_dict>>
    /\ UNCHANGED <<hydro_vars, kernel_vars>>

(***************************************************************************)
(* Specifications.                                                         *)
(***************************************************************************)
\* The sampling cell of the training-data notebook has not run.
SamplingIdle ==
    /\ s_pc = "idle"
    /\ strata_areas = << >>
    /\ total_points = 0
    /\ s_i = 0
    /\ num_points = 0
    /\ points_sampled = 0
    /\ wetland_points = << >>
    /\ class_points_dict = << >>

DriverIdle ==
    /\ d_pc = "idle"
    /\ window_sizes = << >>
    /\ d_i = 0
    /\ data = << >>
    /\ written = << >>

KernelIdle ==
    /\ k_pc = "idle"
    /\ k_call = Null
    /\ w = <<3, 3>>
    /\ method = "queen"
    /\ unit = "degrees"
    /\ kernel = NoRaster
    /\ k_error = "none"
    /\ ti_result = NoResult
    /\ DriverIdle

HydroIdle ==
    /\ fd_dem = NoRaster
    /\ fd_filled = NoRaster
    /\ fd_marker = Unset
    /\ fd_num = Unset
    /\ fd_iter = 0
    /\ accum_d8 = NoRaster
    /\ twi = NoRaster
    /\ fia = Unset
    /\ slope = NoRaster
    /\ flow_lines = {}
    /\ cost_distance = NoRaster
    /\ DTW = NoRaster
    /\ dtw_error = "none"

\* The notebook before fill_depressions is called on an input DEM.
Init ==
    /\ pc = "fill_call"
    /\ \E S \in LoweredSets : \E v \in [S -> 0..(MaxElev - 1)] :
           dem = LoweredPlateau(S, v)
    /\ filled_dem = NoRaster
    /\ HydroIdle
    /\ KernelIdle
    /\ SamplingIdle

Next == FillEnter \/ FillIterate \/ FlowAccumulationCell \/ CalcDTW

Spec == Init /\ [][Next]_vars

\* create_kernel or terrain_indices about to be called with a window and a method.
KernelInit ==
    /\ pc = "idle"
    /\ dem = NoRaster
    /\ HydroIdle
    /\ k_pc = "call"
    /\ \/ /\ k_call = "create_kernel"
          /\ filled_dem = NoRaster
          /\ unit = "degrees"
       \/ /\ k_call = "terrain_indices"
          /\ filled_dem \in TerrainDems
          /\ unit \in Units
    /\ w \in Windows
    /\ method \in Methods
    /\ kernel = NoRaster
    /\ k_error = "none"
    /\ ti_result = NoResult
    /\ DriverIdle
    /\ SamplingIdle

KernelNext == CreateKernelCall \/ TerrainValidate \/ TerrainCreateKernel \/ TerrainReturn

KernelSpec == KernelInit /\ [][KernelNext]_vars

\* The driver cell about to loop over a list of windows, the filled DEM at hand.
WindowLists == UNION {[1..n -> DriverWindows] : n \in 1..MaxWindows}

DriverInit ==
    /\ pc = "idle"
    /\ dem = NoRaster
    /\ HydroIdle
    /\ filled_dem \in TerrainDems
    /\ k_pc = "idle"
    /\ k_call = Null
    /\ w = <<3, 3>>
    /\ method = "queen"
    /\ unit = "degrees"
    /\ kernel = NoRaster
    /\ k_error = "none"
    /\ ti_result = NoResult
    /\ d_pc = "loop"
    /\ window_sizes \in WindowLists
    /\ d_i = 0
    /\ data = << >>
    /\ written = << >>
    /\ SamplingIdle

DriverNext ==
    \/ DriverCall
    \/ TerrainValidate
    \/ TerrainCreateKernel
    \/ TerrainReturn
    \/ DriverStore
    \/ DriverRaise
    \/ DriverDone

DriverSpec == DriverInit /\ [][DriverNext]_vars

\* fill_depressions alone; the interpreter runs the loop until it breaks.
FillNext == FillEnter \/ FillIterate

FillSpec == Init /\ [][FillNext]_vars /\ WF_vars(FillNext)

\* The hydrology cells up to the flow accumulation, run on a flat plateau
\* with one lower corner cell.
PlateauInit ==
    /\ pc = "fill_call"
    /\ \E h \in 2..MaxSide, n \in 2..MaxSide :
       \E outlet \in Corners(h, n) :
       \E top \in 1..MaxElev :
       \E low \in 0..(top - 1) :
           dem = PlateauWithOutlet(h, n, outlet, top, low)
    /\ filled_dem = NoRaster
    /\ HydroIdle
    /\ KernelIdle
    /\ SamplingIdle

PlateauNext == FillEnter \/ FillIterate \/ FlowAccumulationCell

PlateauSpec == PlateauInit /\ [][PlateauNext]_vars

\* The hydrology cells with calcDTW handed a slope raster of another shape.
ShapeNext == FillEnter \/ FillIterate \/ FlowAccumulationCell \/ CalcDTWForeignSlope

ShapeSpec == Init /\ [][ShapeNext]_vars

\* The sampling cell about to loop over the classes.
SamplingInit ==
    /\ pc = "idle"
    /\ dem = NoRaster
    /\ filled_dem = NoRaster
    /\ HydroIdle
    /\ KernelIdle
    /\ s_pc = "for"
    /\ strata_areas \in AreaVectors
    /\ total_points \in TotalPointChoices(Len(strata_areas))
    /\ s_i = 0
    /\ num_points = 0
    /\ points_sampled = 0
    /\ wetland_points = [c \in 1..Len(strata_areas) |-> 0]
    /\ class_points_dict = << >>

SamplingNext == SamplingClassEnter \/ SampleIteration \/ SamplingClassLeave \/ SamplingDone

SamplingSpec == SamplingInit /\ [][SamplingNext]_vars

(***************************************************************************)
(* Properties of fill_depressions.                                         *)
(***************************************************************************)
SetMax(S) == CHOOSE x \in S : \A y \in S : y <= x

\* The 8 cells adjacent to c that lie on the raster.
Neighbors8(f, c) ==
    {d \in DOMAIN f : d # c /\ Abs(d[1] - c[1]) <= 1 /\ Abs(d[2] - c[2]) <= 1}

\* A cell on the first or last row or column of the raster.
IsBoundary(f, c) ==
    LET rows == {d[1] : d \in DOMAIN f}
        cols == {d[2] : d \in DOMAIN f}
    IN  \/ c[1] = SetMin(rows) \/ c[1] = SetMax(rows)
        \/ c[2] = SetMin(cols) \/ c[2] = SetMax(cols)

\* fill_depressions has returned.
FillReturned == pc \in {"filled", "twi", "dtw"}

Interior(f) == {c \in DOMAIN f : ~IsBoundary(f, c)}

\* The cells reached from `seen` by steps to an adjacent cell that is not higher.
RECURSIVE DescentReach(_, _)
DescentReach(f, seen) ==
    LET more == {d \in DOMAIN f \ seen : \E c \in seen : d \in Neighbors8(f, c) /\ f[d] <= f[c]}
    IN  IF more = {} THEN seen ELSE DescentReach(f, seen \cup more)

\* c has a path of adjacent cells to a boundary cell along which f never increases.
DrainsToBoundary(f, c) == \E d \in DescentReach(f, {c}) : IsBoundary(f, d)

\* An interior cell strictly below its 8 neighbours.
IsPit(f, c) == ~IsBoundary(f, c) /\ \A d \in Neighbors8(f, c) : f[c] < f[d]

\* C1: when fill_depressions has returned, every interior cell of the returned
\* raster has a path of 8-adjacent cells to a boundary cell along which the
\* elevation never increases (no interior sink remains).
C1_NoInteriorSink ==
    pc = "filled" => \A c \in Interior(filled_dem) : DrainsToBoundary(filled_dem, c)

\* r has the shape of d and is nowhere below it.
NowhereBelow(r, d) == DOMAIN r = DOMAIN d /\ \A c \in DOMAIN d : r[c] >= d[c]

\* C2: the filled estimate after every pass of the loop, and so the raster
\* fill_depressions returns, has the shape of the input DEM and is at every
\* cell greater than or equal to the input elevation.
C2_FillNeverLowers ==
    /\ fd_iter >= 1 => NowhereBelow(fd_filled, dem)
    /\ FillReturned => NowhereBelow(filled_dem, dem)

\* fill_depressions returned the filled raster of a DEM with an interior pit.
C2_Witness ==
    /\ pc = "filled"
    /\ \E c \in DOMAIN dem : IsPit(dem, c)
    /\ NowhereBelow(filled_dem, dem)

\* The number of depression components the loop state holds.
Depressions(d, f) == NumFeatures(d, DepressionMask(d, f))

\* A pass of the loop never lowers the filled estimate, keeps it at or below
\* the maximum of the input, and either leaves the loop or leaves fewer
\* depression components than it found.
FillPassProgress ==
    pc = "fill_loop" =>
        /\ \A c \in DOMAIN fd_filled :
              /\ fd_filled'[c] >= fd_filled[c]
              /\ fd_filled'[c] <= SetMax({dem[x] : x \in DOMAIN dem})
        /\ \/ pc' = "filled"
           \/ Depressions(fd_dem', fd_filled') < Depressions(fd_dem, fd_filled)

\* C3: fill_depressions terminates on every input: the loop is left, no pass
\* lowers the filled estimate at any cell or raises it above the maximum of
\* the input, and every pass resolves a depression component or leaves the loop.
C3_FillTerminates == <>FillReturned /\ [][FillPassProgress]_vars

\* The loop was left after a pass over a DEM with an interior pit.
C3_Witness ==
    /\ pc = "filled"
    /\ fd_iter >= 1
    /\ fd_num = 0
    /\ \E c \in DOMAIN dem : IsPit(dem, c)

(***************************************************************************)
(* Properties of the flow accumulation.                                    *)
(***************************************************************************)
\* The cells on the flow path of d under the directions dir, d included.
RECURSIVE FlowPath(_, _)
FlowPath(dir, d) ==
    IF dir[d] = 0 THEN {d} ELSE {d} \cup FlowPath(dir, D8Neighbor(d, dir[d]))

\* The cells that drain directly into c.
DrainInto(dir, c) == {d \in DOMAIN dir : dir[d] # 0 /\ D8Neighbor(d, dir[d]) = c}

\* C4: on the filled DEM the D8 flow accumulation of every cell is at least 1,
\* is the number of cells (itself included) whose flow path passes through
\* the cell, is 1 plus the accumulations of the cells draining directly into
\* it, and the accumulations of the cells without outflow add up to the
\* number of cells.
C4_AccumulationCounts ==
    pc = "twi" =>
        \A dir \in {[c \in DOMAIN filled_dem |-> FlowDirection(filled_dem, c)]} :
            /\ DOMAIN accum_d8 = DOMAIN filled_dem
            /\ \A c \in DOMAIN accum_d8 :
                  /\ accum_d8[c] >= 1
                  /\ accum_d8[c] = Cardinality({d \in DOMAIN dir : c \in FlowPath(dir, d)})
                  /\ accum_d8[c] = 1 + SetSum(accum_d8, DrainInto(dir, c))
            /\ SetSum(accum_d8, {c \in DOMAIN dir : dir[c] = 0})
                  = Cardinality(DOMAIN filled_dem)

\* The accumulation was computed for a DEM on which a cell that already
\* carries upstream flow drains into a further cell.
C4_Witness ==
    /\ pc = "twi"
    /\ \E c \in DOMAIN accum_d8 :
          /\ FlowDirection(filled_dem, c) # 0
          /\ accum_d8[c] >= 2
          /\ accum_d8[Downstream(filled_dem, c)] > accum_d8[c]

(***************************************************************************)
(* Properties of calcDTW.                                                  *)
(***************************************************************************)
\* c is a channel cell: its flow accumulation a is at least
\* t = fia * 10000 / (30 * 30), with fia in hundredths of a hectare.
IsChannel(c) == accum_d8[c] * 900 * 100 >= fia * 10000

\* C5: after calcDTW, DTW is 0 at every channel cell, whatever fia and the
\* slope raster are.
C5_ZeroAtChannels ==
    pc = "dtw" => \A c \in DOMAIN DTW : IsChannel(c) => DTW[c] = 0

\* calcDTW ran on a sloping raster with some channel cells and some other
\* cells, of which one has a positive DTW.
C5_Witness ==
    /\ pc = "dtw"
    /\ \E c \in DOMAIN DTW : IsChannel(c) /\ slope[c] > 0 /\ DTW[c] = 0
    /\ \E c \in DOMAIN DTW : ~IsChannel(c) /\ DTW[c] > 0

\* C6: when no cell meets the flow threshold, calcDTW raises EmptyChannelMask
\* and returns no DTW raster.
C6_EmptyMaskRejected ==
    (pc = "dtw" /\ \A c \in DOMAIN accum_d8 : ~IsChannel(c)) =>
        dtw_error = "EmptyChannelMask" /\ DTW = NoRaster

(***************************************************************************)
(* Properties of create_kernel and terrain_indices.                        *)
(***************************************************************************)
IsEven(n) == n % 2 = 0

\* A window with an even dimension or a dimension below 3.
InvalidWindow(win) ==
    win[1] < 3 \/ win[2] < 3 \/ IsEven(win[1]) \/ IsEven(win[2])

\* create_kernel, called on its own, has returned or raised.
CreateKernelDone == k_call = "create_kernel" /\ k_pc \in {"returned", "raised"}

\* C7 as stated: create_kernel rejects a window with an even dimension or a
\* dimension below 3 with a descriptive error and returns no kernel.
C7_CreateKernelRejects ==
    (CreateKernelDone /\ InvalidWindow(w)) =>
        k_error \in {ErrTooSmall, ErrEven} /\ kernel = NoRaster

\* C7 amended: create_kernel does not check the window. Called with a window
\* of dimensions >= 1 that has an even dimension or a dimension below 3, it
\* returns a (ky, kx) kernel, except that circle and annulus with an even
\* dimension fail in the mask assignment with an IndexError; the descriptive
\* rejection is made by terrain_indices, which never reaches create_kernel
\* with such a window.
C7_RejectionIsTheCallers ==
    /\ (CreateKernelDone /\ InvalidWindow(w)) =>
          IF method \in {"circle", "annulus"} /\ (IsEven(w[1]) \/ IsEven(w[2]))
          THEN k_pc = "raised" /\ k_error = "IndexError" /\ kernel = NoRaster
          ELSE k_pc = "returned" /\ k_error = "none"
               /\ DOMAIN kernel = KernelCells(w[2], w[1])
    /\ (k_call = "terrain_indices" /\ InvalidWindow(w)) =>
          k_pc \in {"call", "raised"} /\ kernel = NoRaster

\* create_kernel returned a kernel for an even window and for a window below 3.
C7_Witness ==
    /\ CreateKernelDone
    /\ k_pc = "returned"
    /\ w \in {<<4, 4>>, <<1, 1>>}
    /\ method = "queen"
    /\ KernelSum(kernel) = w[1] * w[2]

\* C8: terrain_indices called with a window whose smaller dimension is below
\* 3, or with an even dimension, raises the window error before a kernel is
\* built or anything is computed and returns no result; every odd window
\* with both dimensions >= 3 passes the check and gets its kernel.
C8_TerrainValidates ==
    (k_call = "terrain_indices" /\ k_pc # "call") =>
        IF SetMin({w[1], w[2]}) < 3 \/ IsEven(w[1]) \/ IsEven(w[2])
        THEN /\ k_pc = "raised"
             /\ k_error \in {ErrTooSmall, ErrEven}
             /\ kernel = NoRaster
             /\ ti_result = NoResult
        ELSE /\ k_pc \in {"validated", "kernel", "returned"}
             /\ k_error = "none"
             /\ k_pc # "validated" => DOMAIN kernel = KernelCells(w[2], w[1])

\* terrain_indices raised for an even window of dimensions >= 3.
C8_Witness ==
    /\ k_call = "terrain_indices"
    /\ k_pc = "raised"
    /\ w = <<4, 3>>
    /\ k_error = ErrEven

\* create_kernel has returned a kernel, called on its own or by terrain_indices.
KernelReturned ==
    \/ k_call = "create_kernel" /\ k_pc = "returned"
    \/ k_call = "terrain_indices" /\ k_pc \in {"kernel", "returned"}

\* C9: for an odd window (kx, ky) create_kernel returns a (ky, kx) matrix of
\* entries 0 and 1; queen sets every cell (sum kx*ky); rook sets exactly the
\* centre row and the centre column (sum kx+ky-1); bishop on a square k x k
\* window sets exactly the two diagonals (sum 2k-1).
C9_QueenRookBishop ==
    (KernelReturned /\ ~IsEven(w[1]) /\ ~IsEven(w[2])) =>
        LET kx == w[1]
            ky == w[2]
        IN  /\ DOMAIN kernel = KernelCells(ky, kx)
            /\ \A c \in DOMAIN kernel : kernel[c] \in {0, 1}
            /\ method = "queen" =>
                  /\ \A c \in DOMAIN kernel : kernel[c] = 1
                  /\ KernelSum(kernel) = kx * ky
            /\ method = "rook" =>
                  /\ \A c \in DOMAIN kernel :
                        kernel[c] = 1 <=> (c[1] = (ky - 1) \div 2 \/ c[2] = (kx - 1) \div 2)
                  /\ KernelSum(kernel) = kx + ky - 1
            /\ (method = "bishop" /\ kx = ky) =>
                  /\ \A c \in DOMAIN kernel :
                        kernel[c] = 1 <=> (c[1] = c[2] \/ c[1] + c[2] = kx - 1)
                  /\ KernelSum(kernel) = 2 * kx - 1

\* create_kernel returned the bishop kernel of the 5x5 window, of sum 9.
C9_Witness ==
    /\ KernelReturned
    /\ w = <<5, 5>>
    /\ method = "bishop"
    /\ KernelSum(kernel) = 9
    /\ kernel[<<0, 4>>] = 1
    /\ kernel[<<0, 1>>] = 0

\* The kernel k of a k x k window after a rotation by 90 degrees.
Rot90(k, n) == [c \in DOMAIN k |-> k[<<c[2], n - 1 - c[1]>>]]

\* C10: for a square odd window of size k >= 3 the circle kernel is 1 exactly
\* at the cells within Euclidean distance k div 2 of the centre, and the
\* circle and the annulus kernels are unchanged by a rotation by 90 degrees.
C10_CircleAnnulus ==
    (KernelReturned /\ w[1] = w[2] /\ ~IsEven(w[1]) /\ w[1] >= 3) =>
        LET k == w[1]
            centre == <<(k - 1) \div 2, (k - 1) \div 2>>
        IN  /\ method = "circle" =>
                  \A c \in DOMAIN kernel :
                      kernel[c] = 1 <=> SqDist(c, centre) <= (k \div 2) * (k \div 2)
            /\ method \in {"circle", "annulus"} => Rot90(kernel, k) = kernel

\* create_kernel returned the circle kernel of the 5x5 window: the corners
\* are outside the radius, the ends of the centre row inside.
C10_Witness ==
    /\ KernelReturned
    /\ w = <<5, 5>>
    /\ method = "circle"
    /\ kernel[<<0, 0>>] = 0
    /\ kernel[<<2, 0>>] = 1
    /\ kernel[<<1, 1>>] = 1

\* The cells of the centre row of the kernel that lie left (side = -1) or
\* right (side = 1) of the centre and hold 1.
CentreRowOnes(k, ky, kx, side) ==
    {c \in DOMAIN k : /\ c[1] = (ky - 1) \div 2
                      /\ (c[2] - (kx - 1) \div 2) * side > 0
                      /\ k[c] = 1}

\* C11: for method annulus and an odd window with kx >= 3 the kernel is 1
\* exactly at the cells within the outer radius kx div 2 of the centre but not
\* inside the inner radius (kx div 2) - 1, and 0 elsewhere; it is a ring one
\* cell wide that excludes the innermost pixels: the centre cell is 0 and on
\* the centre row exactly one cell on each side of the centre is 1.
C11_AnnulusRing ==
    (KernelReturned /\ method = "annulus" /\ ~IsEven(w[1]) /\ ~IsEven(w[2]) /\ w[1] >= 3) =>
        LET kx == w[1]
            ky == w[2]
            centre == <<(ky - 1) \div 2, (kx - 1) \div 2>>
            outer == (kx \div 2) * (kx \div 2)
            inner == (kx \div 2 - 1) * (kx \div 2 - 1)
        IN  /\ \A c \in DOMAIN kernel :
                  kernel[c] = IF SqDist(c, centre) <= outer /\ SqDist(c, centre) >= inner
                              THEN 1 ELSE 0
            /\ kernel[centre] = 0
            /\ Cardinality(CentreRowOnes(kernel, ky, kx, -1)) = 1
            /\ Cardinality(CentreRowOnes(kernel, ky, kx, 1)) = 1

(***************************************************************************)
(* Further properties of calcDTW.                                          *)
(***************************************************************************)
\* The squared Euclidean distance from c to the nearest cell of a non-empty mask.
NearestSq(c, lines) == SetMin({SqDist(c, d) : d \in lines})

\* A raster with one value at every cell.
ConstantRaster(s) == \A a \in DOMAIN s : s[a] = s[CHOOSE b \in DOMAIN s : TRUE]

\* C16: with a constant slope raster DTW is non-decreasing in the Euclidean
\* distance to the nearest channel cell: for any two cells a and b,
\* distance(a) <= distance(b) implies DTW(a) <= DTW(b).
C16_MonotoneInDistance ==
    (pc = "dtw" /\ flow_lines # {} /\ ConstantRaster(slope)) =>
        \A near \in {[c \in DOMAIN DTW |-> NearestSq(c, flow_lines)]} :
        \A a, b \in DOMAIN DTW : near[a] <= near[b] => DTW[a] <= DTW[b]

\* calcDTW ran with a constant positive slope on a raster that has cells at
\* two different positive distances from the channel, the farther one with
\* the larger DTW.
C16_Witness ==
    /\ pc = "dtw"
    /\ flow_lines # {}
    /\ ConstantRaster(slope)
    /\ \E a, b \in DOMAIN DTW :
          /\ slope[a] > 0
          /\ 0 < NearestSq(a, flow_lines)
          /\ NearestSq(a, flow_lines) < NearestSq(b, flow_lines)
          /\ DTW[a] < DTW[b]

\* C17: calcDTW uses the threshold t = fia * 10000 / (|30| * |-30|) cells and
\* marks as channel exactly the cells with flow accumulation >= t; with fia
\* in hundredths of a hectare, t = fia / 9, so a cell is a channel exactly
\* when 9 * accumulation >= fia: equal to t is a channel, below t is not.
C17_ChannelThreshold ==
    pc = "dtw" =>
        \A c \in DOMAIN accum_d8 : (c \in flow_lines) <=> (9 * accum_d8[c] >= fia)

\* calcDTW ran on a raster with a cell whose accumulation equals t, marked as
\* a channel, and a cell below t, not marked.
C17_Witness ==
    /\ pc = "dtw"
    /\ \E c \in DOMAIN accum_d8 : 9 * accum_d8[c] = fia /\ c \in flow_lines
    /\ \E c \in DOMAIN accum_d8 : 9 * accum_d8[c] < fia /\ c \notin flow_lines

\* The DTW raster calcDTW returns for the channel mask `lines` on the filled
\* DEM and the slope raster of the state.
DTWFor(lines) == DepthToWater(CostDistance(filled_dem, lines), slope)

\* C18: for fia1 <= fia2 on one filled DEM and slope raster, with both channel
\* masks non-empty, the channel mask of fia2 is a subset of the channel mask of
\* fia1 and DTW of fia2 is >= DTW of fia1 at every cell.
C18_SparserChannels ==
    (pc = "dtw" /\ flow_lines # {}) =>
        \A fia2 \in {f \in FiaValues : f >= fia} :
        \A lines2 \in {FlowLines(accum_d8, fia2)} :
            lines2 # {} =>
                /\ lines2 \subseteq flow_lines
                /\ lines2 # flow_lines =>
                      \A dtw2 \in {DTWFor(lines2)} : \A c \in DOMAIN DTW : dtw2[c] >= DTW[c]

\* calcDTW ran with a fia for which a larger fia has a smaller, non-empty
\* channel mask and a larger DTW at a cell where DTW is already positive.
C18_Witness ==
    /\ pc = "dtw"
    /\ flow_lines # {}
    /\ \E fia2 \in {f \in FiaValues : f > fia} :
          /\ FlowLines(accum_d8, fia2) # {}
          /\ FlowLines(accum_d8, fia2) # flow_lines
          /\ \E c \in DOMAIN DTW :
                0 < DTW[c] /\ DTW[c] < DTWFor(FlowLines(accum_d8, fia2))[c]

\* C20: the DTW value of a cell, in metres, is the cost (the distance to the
\* nearest channel, in cells) multiplied by the spatial resolution of the DEM
\* (30 m) and by slope_percent / 100; as (100 * DTW)^2 it is
\* cost^2 * 30^2 * slope^2.
C20_ScaledByResolution ==
    pc = "dtw" =>
        \A c \in DOMAIN DTW :
            DTW[c] = cost_distance[c] * Abs(ResolutionX) * Abs(ResolutionX) * slope[c] * slope[c]

(***************************************************************************)
(* Flow accumulation on a flat plateau.                                    *)
(***************************************************************************)
\* f is a flat plateau of 5 x 5 cells of which exactly the corner cell o is
\* lower than the rest.
IsPlateau5(f, o) ==
    /\ DOMAIN f = (1..5) \X (1..5)
    /\ o \in Corners(5, 5)
    /\ \A c, d \in DOMAIN f \ {o} : f[c] = f[d]
    /\ \A c \in DOMAIN f \ {o} : f[o] < f[c]

\* The flow direction of c leads to a cell nearer to the cell o.
PointsToward(f, c, o) ==
    /\ FlowDirection(f, c) # 0
    /\ SqDist(Downstream(f, c), o) < SqDist(c, o)

\* C19: on a flat 5 x 5 plateau with a single outlet corner the flow
\* accumulation at the outlet is 25, the number of cells, and the flow
\* direction of every other cell points toward the outlet.
C19_PlateauDrainsToOutlet ==
    pc = "twi" =>
        \A o \in {c \in DOMAIN filled_dem : IsPlateau5(filled_dem, c)} :
            /\ accum_d8[o] = 25
            /\ \A c \in DOMAIN filled_dem \ {o} : PointsToward(filled_dem, c, o)

(***************************************************************************)
(* Properties of the Topographic Wetness Index.                            *)
(***************************************************************************)
\* C15: TWI = ln(flow_accumulation / (tan(slope) + 0.01)) is finite at every
\* cell where the flow accumulation and the slope are non-negative; a cell of
\* slope exactly 0 gets the finite value ln(flow_accumulation / 0.01).
C15_TwiFinite ==
    pc = "twi" =>
        /\ DOMAIN twi = DOMAIN filled_dem
        /\ \A c \in DOMAIN twi :
              (accum_d8[c] >= 0 /\ slope[c] >= 0) =>
                  /\ twi[c].kind = "finite"
                  /\ slope[c] = 0 =>
                        twi[c] = [accum |-> accum_d8[c],
                                  den   |-> [tan2 |-> 0, eps |-> 1],
                                  kind  |-> "finite"]

\* The TWI cell ran on a raster with a cell of slope 0 and a sloping cell,
\* both with a finite TWI.
C15_Witness ==
    /\ pc = "twi"
    /\ \E c \in DOMAIN twi : slope[c] = 0 /\ twi[c].kind = "finite" /\ twi[c].accum >= 1
    /\ \E c \in DOMAIN twi : slope[c] > 0 /\ twi[c].kind = "finite"

\* terrain_indices has returned its dictionary.
TerrainReturned == k_call = "terrain_indices" /\ k_pc = "returned"

\* C13: for every valid window, terrain_indices returns exactly the five
\* named rasters Slope, Curvature, Profile_curvature, Planform_curvature and
\* TPI, each with the same grid shape as the input DEM; and a call with a
\* valid window does return.
C13_FiveRasters ==
    /\ TerrainReturned =>
          /\ DOMAIN ti_result = {"Slope", "Curvature", "Profile_curvature",
                                 "Planform_curvature", "TPI"}
          /\ \A n \in DOMAIN ti_result : DOMAIN ti_result[n].cells = DOMAIN filled_dem
    /\ (k_call = "terrain_indices" /\ k_pc = "raised") => WindowError(w) # "none"

\* terrain_indices has returned for a window that is not square, and the TPI
\* raster has a number in the middle of the grid.
C13_Witness ==
    /\ TerrainReturned
    /\ w = <<5, 3>>
    /\ ~ti_result.TPI.cells[<<(GridRows + 1) \div 2, (GridCols + 1) \div 2>>].nan

\* The DEM f is a plane: a constant step down the rows and a constant step
\* along the columns.
IsPlanar(f) ==
    \A c \in DOMAIN f :
        f[c] = f[<<1, 1>>] + (c[1] - 1) * (f[<<2, 1>>] - f[<<1, 1>>])
                           + (c[2] - 1) * (f[<<1, 2>>] - f[<<1, 1>>])

\* The kernel k of ky rows and kx columns is unchanged by a half turn about
\* its centre cell.
HalfTurnSymmetric(k, ky, kx) ==
    \A p \in DOMAIN k : k[p] = k[<<ky - 1 - p[1], kx - 1 - p[2]>>]

\* The cell c lies on the outermost ring of the grid of f.
OnBorder(c, f) ==
    \/ <<c[1] - 1, c[2]>> \notin DOMAIN f
    \/ <<c[1] + 1, c[2]>> \notin DOMAIN f
    \/ <<c[1], c[2] - 1>> \notin DOMAIN f
    \/ <<c[1], c[2] + 1>> \notin DOMAIN f

\* The cell c lies at least dy rows and dx columns inside the grid of f.
InsideBy(c, f, dy, dx) ==
    /\ <<c[1] - dy, c[2] - dx>> \in DOMAIN f
    /\ <<c[1] + dy, c[2] + dx>> \in DOMAIN f

\* C12 as stated: for a perfectly planar DEM, the TPI raster returned by
\* terrain_indices is zero at every cell of the grid, at every window size.
C12_TpiZeroOnPlane ==
    (TerrainReturned /\ IsPlanar(filled_dem)) =>
        \A c \in DOMAIN filled_dem : ti_result.TPI.cells[c] = Num(0)

\* C12 amended: for a perfectly planar DEM and a window whose kernel is
\* unchanged by a half turn, the TPI raster is zero at every cell where it is
\* defined; it is NaN on the border cells of the grid and defined (so zero) at
\* every cell at least 2*(ky//2) rows and 2*(kx//2) columns inside the grid.
C12_TpiZeroWhereDefined ==
    (TerrainReturned /\ IsPlanar(filled_dem) /\ HalfTurnSymmetric(kernel, w[2], w[1])) =>
        \A c \in DOMAIN filled_dem :
            /\ ti_result.TPI.cells[c] \in {NaN, Num(0)}
            /\ OnBorder(c, filled_dem) => ti_result.TPI.cells[c] = NaN
            /\ InsideBy(c, filled_dem, 2 * (w[2] \div 2), 2 * (w[1] \div 2)) =>
                  ti_result.TPI.cells[c] = Num(0)

\* terrain_indices has returned for a plane tilted along both axes and a rook
\* window of 5 columns and 3 rows: the TPI is zero at the centre of the grid
\* and NaN at its corner.
C12_Witness ==
    /\ TerrainReturned
    /\ filled_dem = TerrainDem(1, 2, 0)
    /\ w = <<5, 3>>
    /\ method = "rook"
    /\ ti_result.TPI.cells[<<(GridRows + 1) \div 2, (GridCols + 1) \div 2>>] = Num(0)
    /\ ti_result.TPI.cells[<<1, 1>>] = NaN

OtherUnit(u) == IF u = "degrees" THEN "radians" ELSE "degrees"

\* The value of a profile or planform cell x does not depend on the unit the
\* aspect is handed to np.cos and np.sin in: the cell is NaN, or the two
\* squared weights share one coefficient and the cross term is absent, or the
\* aspect is 0 (dz_dx = 0 and dz_dy < 0), which is 0 in both units.
UnitFree(x) ==
    \/ x.nan
    \/ x.v.cos2 = x.v.sin2 /\ x.v.sincos = 0
    \/ x.v.dz_dx = 0 /\ x.v.dz_dy < 0

\* Two profile or planform rasters hold the same values.
SameAspectValues(a, b) ==
    /\ a.scale = b.scale
    /\ \A c \in DOMAIN a.cells :
          /\ a.cells[c] = b.cells[c]
          /\ a.unit = b.unit \/ UnitFree(a.cells[c])

\* C21: the angle unit is presentation-only: for the same DEM, window and
\* method, terrain_indices with the other unit returns identical Curvature,
\* Profile_curvature, Planform_curvature and TPI rasters, and a Slope raster
\* of the same angles in the other unit.
C21_UnitPresentationOnly ==
    TerrainReturned =>
       \A ky \in {w[2]}, kx \in {w[1]} :
       \A smoothed_dem \in {FocalMean(FromInts(filled_dem), kernel, ky, kx)} :
       \A dz_dx \in {GradientAlong(smoothed_dem, 1)} :
       \A dz_dy \in {GradientAlong(smoothed_dem, 2)} :
       \A fm_dx \in {FocalMean(dz_dx, kernel, ky, kx)} :
       \A fm_dy \in {FocalMean(dz_dy, kernel, ky, kx)} :
       \A dz2_dx2 \in {RasterMinus(fm_dx, dz_dx)} :
       \A dz2_dy2 \in {RasterMinus(fm_dy, dz_dy)} :
       \A dz2_dxdy \in {RasterMinus(fm_dx, fm_dy)} :
       \A focal_mean_tpi \in {FocalMean(smoothed_dem, kernel, ky, kx)} :
       \A other \in {TerrainResult(
                        SlopeOf(dz_dx, dz_dy, OtherUnit(unit)),
                        RasterPlus(dz2_dx2, dz2_dy2),
                        AspectCombination(dz2_dy2, dz2_dx2, Scaled(2, dz2_dxdy),
                                          dz_dx, dz_dy, OtherUnit(unit)),
                        AspectCombination(dz2_dx2, dz2_dy2, Scaled(0 - 2, dz2_dxdy),
                                          dz_dx, dz_dy, OtherUnit(unit)),
                        RasterMinus(smoothed_dem, focal_mean_tpi))} :
          /\ other.Curvature = ti_result.Curvature
          /\ other.TPI = ti_result.TPI
          /\ SameAspectValues(other.Profile_curvature, ti_result.Profile_curvature)
          /\ SameAspectValues(other.Planform_curvature, ti_result.Planform_curvature)
          /\ other.Slope.cells = ti_result.Slope.cells
          /\ other.Slope.scale = ti_result.Slope.scale
          /\ other.Slope.unit = OtherUnit(ti_result.Slope.unit)

\* C22: calcDTW given a slope raster whose grid dimensions differ from those
\* of the filled DEM reports an error to the caller and returns no DTW raster.
C22_ShapeMismatchReported ==
    (pc \in {"dtw", "dtw_raised"} /\ DOMAIN slope # DOMAIN filled_dem) =>
        /\ pc = "dtw_raised"
        /\ dtw_error # "none"
        /\ DTW = NoRaster

\* C23: fill_depressions never changes a cell on the raster boundary: in
\* every filled estimate it computes, the returned one included, each
\* boundary cell holds its original elevation.
C23_BoundaryUnchanged ==
    /\ fd_iter >= 1 =>
          \A c \in DOMAIN dem : IsBoundary(dem, c) => fd_filled[c] = dem[c]
    /\ pc = "filled" =>
          \A c \in DOMAIN dem : IsBoundary(dem, c) => filled_dem[c] = dem[c]

\* fill_depressions has returned for a DEM whose lowest cell lies on the
\* boundary, below every other cell, and that cell holds its elevation.
C23_Witness ==
    /\ pc = "filled"
    /\ \E c \in DOMAIN dem :
          /\ IsBoundary(dem, c)
          /\ \A d \in DOMAIN dem \ {c} : dem[c] < dem[d]
          /\ filled_dem[c] = dem[c]

C25_ProfilePlusPlanform ==
    TerrainReturned =>
        \A c \in DOMAIN filled_dem :
            \A pr \in {ti_result.Profile_curvature.cells[c]} :
            \A pl \in {ti_result.Planform_curvature.cells[c]} :
            \A cu \in {ti_result.Curvature.cells[c]} :
                (~pr.nan /\ ~pl.nan /\ ~cu.nan) =>
                    /\ ti_result.Profile_curvature.scale = ti_result.Curvature.scale
                    /\ ti_result.Planform_curvature.scale = ti_result.Curvature.scale
                    /\ ti_result.Profile_curvature.unit = ti_result.Planform_curvature.unit
                    /\ pr.v.dz_dx = pl.v.dz_dx
                    /\ pr.v.dz_dy = pl.v.dz_dy
                    /\ pr.v.sincos + pl.v.sincos = 0
                    /\ pr.v.cos2 + pl.v.cos2 = cu.v
                    /\ pr.v.sin2 + pl.v.sin2 = cu.v

\* terrain_indices has returned in degrees with a cell where the three are
\* defined, the two second derivatives differ and the cross term is present.
C25_Witness ==
    /\ TerrainReturned
    /\ unit = "degrees"
    /\ \E c \in DOMAIN filled_dem :
          /\ ~ti_result.Curvature.cells[c].nan
          /\ ~ti_result.Planform_curvature.cells[c].nan
          /\ ~ti_result.Profile_curvature.cells[c].nan
          /\ ti_result.Profile_curvature.cells[c].v.cos2
                # ti_result.Profile_curvature.cells[c].v.sin2
          /\ ti_result.Profile_curvature.cells[c].v.sincos # 0

\* C26: for every odd window (kx, ky) with kx, ky >= 3, square or not, and
\* each method, the kernel create_kernel returns has a nonzero cell and is
\* unchanged by a half turn about its centre cell.
C26_KernelCentred ==
    (KernelReturned /\ WindowError(w) = "none") =>
        /\ KernelSum(kernel) >= 1
        /\ HalfTurnSymmetric(kernel, w[2], w[1])

\* The windows of the driver's list are pairwise distinct.
DistinctWindows ==
    \A i, j \in 1..Len(window_sizes) : window_sizes[i] = window_sizes[j] => i = j

\* C27: in the driver loop every (metric, window) pair of a list of distinct
\* windows is written under its own output name: when the loop has ended, the
\* raster under the name of each pair is the raster computed for that pair.
C27_OwnOutputName ==
    (d_pc = "done" /\ DistinctWindows) =>
        \A p \in DOMAIN data :
            /\ FileName(p[1], p[2]) \in DOMAIN written
            /\ written[FileName(p[1], p[2])] = data[p]

\* The cells of the DEM that the nonzero positions of the kernel meet at c,
\* off the grid or not.
Covered(c) ==
    {ConvolveSource(c, p, w[2], w[1]) : p \in {q \in DOMAIN kernel : kernel[q] # 0}}

\* C28: a cell's smoothed elevation is no-data exactly when some nonzero
\* kernel position falls outside the grid or on a no-data cell, and is the
\* mean of the covered cells otherwise; and a cell whose smoothed elevation is
\* no-data is no-data in Slope, Curvature and TPI.
C28_NoDataStaysNoData ==
    TerrainReturned =>
        \A smoothed_dem \in {FocalMean(FromInts(filled_dem), kernel, w[2], w[1])} :
        \A c \in DOMAIN filled_dem :
            /\ smoothed_dem.cells[c].nan <=>
                  \E d \in Covered(c) : d \notin DOMAIN filled_dem \/ filled_dem[d] = NanElev
            /\ ~smoothed_dem.cells[c].nan =>
                  /\ smoothed_dem.cells[c].v = SetSum(filled_dem, Covered(c))
                  /\ smoothed_dem.scale = Cardinality(Covered(c))
            /\ smoothed_dem.cells[c].nan =>
                  /\ ti_result.Slope.cells[c].nan
                  /\ ti_result.Curvature.cells[c].nan
                  /\ ti_result.TPI.cells[c].nan

\* The names of the rasters of a result.
MetricNames == {"Slope", "Curvature", "Profile_curvature", "Planform_curvature", "TPI"}

\* C29: when the window list contains an invalid window, the driver loop
\* stops with the error at the first such window: the outputs of the windows
\* before it in the list have been written and remain, and nothing is kept or
\* written for that window or a later one.
C29_StopsAtInvalidWindow ==
    /\ d_pc = "raised" =>
          /\ WindowError(window_sizes[d_i]) # "none"
          /\ k_error = WindowError(window_sizes[d_i])
          /\ \A j \in 1..(d_i - 1) : WindowError(window_sizes[j]) = "none"
          /\ \A j \in 1..(d_i - 1) : \A n \in MetricNames :
                /\ FileName(n, window_sizes[j]) \in DOMAIN written
                /\ written[FileName(n, window_sizes[j])] = data[<<n, window_sizes[j]>>]
          /\ \A f \in DOMAIN written :
                \E j \in 1..(d_i - 1) : \E n \in MetricNames : f = FileName(n, window_sizes[j])
          /\ \A p \in DOMAIN data : \E j \in 1..(d_i - 1) : p[2] = window_sizes[j]
    /\ d_pc = "done" => \A j \in 1..Len(window_sizes) : WindowError(window_sizes[j]) = "none"

\* The number of points in wetland_points.
PointsHeld == SetSum(wetland_points, DOMAIN wetland_points)

\* A class has been processed and the loop is between two classes or ended.
ClassProcessed == (s_pc = "for" /\ s_i >= 1) \/ s_pc = "done"

\* C30 as stated: after each class is processed wetland_points holds at most
\* total_points points, and when the loop over all classes has ended the
\* number of points kept for each class equals the count recorded for it in
\* class_points_dict, which is at least 300.
C30_KeptEqualsRecorded ==
    /\ ClassProcessed => PointsHeld <= total_points
    /\ s_pc = "done" =>
          \A c \in DOMAIN class_points_dict :
              /\ wetland_points[c] = class_points_dict[c]
              /\ class_points_dict[c] >= MinPoints

\* C30 amended: after each class is processed wetland_points holds at most
\* total_points points, and when the loop has ended the number of points kept
\* for each class is at most the count recorded for it in class_points_dict,
\* which is at least 300; the two are equal for every class exactly when the
\* recorded counts add up to at most total_points.
C30_KeptAtMostRecorded ==
    /\ ClassProcessed => PointsHeld <= total_points
    /\ s_pc = "done" =>
          /\ DOMAIN class_points_dict = DOMAIN strata_areas
          /\ \A c \in DOMAIN class_points_dict :
                /\ wetland_points[c] <= class_points_dict[c]
                /\ class_points_dict[c] >= MinPoints
          /\ (\A c \in DOMAIN class_points_dict : wetland_points[c] = class_points_dict[c])
                <=> SetSum(class_points_dict, DOMAIN class_points_dict) <= total_points

\* The loop has ended with total_points points, two classes recorded with
\* 300 or more points each, and fewer points kept for the first class than
\* recorded for it.
C30_Witness ==
    /\ s_pc = "done"
    /\ Len(class_points_dict) = 2
    /\ PointsHeld = total_points
    /\ wetland_points[1] < class_points_dict[1]
    /\ class_points_dict[1] >= MinPoints

====
